---- MODULE Spec2Model ----
(***************************************************************************)
(* Resumable batch ingestion of masterise-plus/sfmc-migrate.                *)
(*                                                                         *)
(*   src/hello.py             ingest_pg_to_bq_auto      (prog = "bq")       *)
(*   src/pg_to_clickhouse.py  ingest_query_to_clickhouse (prog = "ch")      *)
(*                                                                         *)
(* One destination table is ingested by a sequence of runs of one of the   *)
(* two scripts.  A run is a sequence of steps (count, load checkpoint,     *)
(* prepare table, fetch, write, save, ...); between two steps the process  *)
(* may be terminated.  The checkpoint file and the destination table       *)
(* outlive a run; everything else is local to it.                          *)
(*                                                                         *)
(*   Spec       one job on one table, every run with the same query        *)
(*   SpecQuery  the same job, each run with one of two source queries      *)
(*   SpecKey    get_checkpoint_filename on pairs of table names            *)
(*   SpecPar    two jobs on two tables sharing the working directory       *)
(*   SpecTypes  pg_type_to_ch_type on column type strings                  *)
(***************************************************************************)
EXTENDS Integers, Sequences, FiniteSets, TLC

\* ------------------------------------------------------------------ bounds
MaxRows == 3        \* COUNT(*) of the source query is drawn from 0..MaxRows
MaxBatch == 2       \* positive batch sizes are drawn from 1..MaxBatch
MaxRuns == 2        \* number of runs of the job in one behaviour

\* batch_size values a caller can pass: the positive ones and the two
\* representatives of "non-positive" (0 and a negative one)
BatchSizes == {-1, 0} \cup (1..MaxBatch)

\* batch indices that can occur
BatchIdx == 0..(MaxRows - 1)

VARIABLES
  prog,            \* which script ingests the table: "bq" or "ch"
  pc,              \* position of the running process; "idle" before the first
                   \* run, "done" after a run has ended
  outcome,         \* how the last run ended
  runs,            \* number of runs started
  ckpt,            \* content of the checkpoint file
  dest,            \* destination table: the batch indices whose rows it holds
  batch_size,      \* parameter batch_size
  replace,         \* parameter replace (pg_to_clickhouse.py only)
  total_rows,      \* local total_rows
  total_batches,   \* local total_batches
  checkpoint,      \* local checkpoint (what load_checkpoint returned)
  start_batch,     \* local start_batch
  total_uploaded,  \* local total_uploaded (initialised from already_uploaded)
  batch_num,       \* loop variable batch_num
  rows_fetched,    \* local rows_fetched = len(df)
  log,             \* history: the effects of the current run, in order
  stable,          \* history: every fetch of this run returned the full window
  wr,              \* history: rows written per batch index since the job
                   \* last started without resuming
  emptyF,          \* history: batch indices fetched empty since then
  chain,           \* history: the job (mode, plan) of that fresh start, and
                   \* whether a termination or another job intervened since
  prev,            \* history: summary of the previous run
  sql_query,       \* parameter sql_query: which source query the run ingests
  ckptBy,          \* history: the sql_query of the run that saved the
                   \* checkpoint file
  tables,          \* two jobs side by side: the destination table of each
  keys,            \* ... the checkpoint file name derived for each
  files,           \* ... the checkpoint directory: file name -> content
  jobs,            \* ... the locals of each job's process
  pg_type,         \* parameter pg_type of pg_type_to_ch_type
  ch_type          \* what pg_type_to_ch_type returned

\* one job on one destination table
jobvars == <<prog, pc, outcome, runs, ckpt, dest, batch_size, replace,
             total_rows, total_batches, checkpoint, start_batch,
             total_uploaded, batch_num, rows_fetched, log, stable, wr, emptyF,
             chain, prev>>

queryvars == <<sql_query, ckptBy>>

parvars == <<tables, keys, files, jobs>>

typevars == <<pg_type, ch_type>>

vars == <<jobvars, queryvars, parvars, typevars>>

\* ------------------------------------------------------- checkpoint file
\* os.path.exists(checkpoint_file) is false
NoFile == [kind |-> "none"]

\* the file exists but json.load raises on it (empty, truncated)
Garbage == [kind |-> "corrupt"]

\* the dictionary passed to save_checkpoint
CheckpointData(lcb, uploaded, rows, bsize) ==
  [kind |-> "rec", last_completed_batch |-> lcb, total_uploaded |-> uploaded,
   total_rows |-> rows, batch_size |-> bsize]

\* what load_checkpoint returns when there is no file
None == NoFile

\* ---------------------------------------------------------- batch plan
\* Python's // (floor division), defined for b # 0
PyFloorDiv(a, b) == IF b > 0 THEN a \div b ELSE (0 - a) \div (0 - b)

TotalBatchesWrong(rows, bsize) == PyFloorDiv(rows, bsize)

\* total_batches = (total_rows + batch_size - 1) // batch_size
TotalBatches(rows, bsize) == PyFloorDiv(rows + bsize - 1, bsize)

\* offset = batch_num * batch_size
Offset(i, bsize) == i * bsize

\* the rows of the query result that lie in LIMIT bsize OFFSET Offset(i, bsize)
\* when the result has `rows` rows
RowsIn(i, rows, bsize) ==
  IF rows - Offset(i, bsize) <= 0 THEN 0
  ELSE IF rows - Offset(i, bsize) < bsize THEN rows - Offset(i, bsize)
  ELSE bsize

\* what a paged fetch can return: Postgres rejects a negative LIMIT, LIMIT 0
\* returns nothing, and a source that changes under the job can return any
\* number of rows up to the limit
FetchSizes(bsize) == 0..bsize

\* ------------------------------------------------------- resume decision
\* checkpoint.get('total_rows') == total_rows and
\* checkpoint.get('batch_size') == batch_size
CheckpointMatches(c, rows, bsize) ==
  c.kind = "rec" /\ c.total_rows = rows /\ c.batch_size = bsize

ResumeStartWrong(c) == c.last_completed_batch + 2

\* start_batch = checkpoint['last_completed_batch'] + 1
ResumeStart(c) == c.last_completed_batch + 1

ResumeUploadedWrong(c) == 0

\* already_uploaded = checkpoint.get('total_uploaded', ...)
ResumeUploaded(c) == c.total_uploaded

\* ------------------------------------------------------------- history
Event(op, i, n) == [op |-> op, batch |-> i, rows |-> n]

NoRows == [i \in BatchIdx |-> 0]

RECURSIVE SumRows(_, _)
SumRows(f, k) == IF k < 0 THEN 0 ELSE f[k] + SumRows(f, k - 1)

RECURSIVE WrittenRows(_)
WrittenRows(s) ==
  IF s = <<>> THEN 0
  ELSE (IF Head(s).op = "write" THEN Head(s).rows ELSE 0) + WrittenRows(Tail(s))

Batches(s, op) == {s[j].batch : j \in {x \in 1..Len(s) : s[x].op = op}}

NoPrev == [outcome |-> "none", at |-> 0, total_rows |-> 0, batch_size |-> 0,
           replace |-> FALSE, first |-> FALSE]

\* The summary of the run that has just ended, taken when the next one is
\* called with the same parameters: kept when that run failed in a fetch or
\* a write (at batch index `at`); `first` says that it had found no
\* checkpoint and an empty table and that the source was stable.  Dropped by
\* SameJob when the next run counts another number of rows.
Summary(bsize, rep) ==
  IF outcome \in {"fetch_error", "write_error"} /\ pc = "done"
     /\ bsize = batch_size /\ rep = replace
    THEN [outcome |-> outcome, at |-> batch_num, total_rows |-> total_rows,
          batch_size |-> batch_size, replace |-> replace,
          first |-> (checkpoint = None /\ stable /\ dest \subseteq Batches(log, "write"))]
    ELSE NoPrev

SameJob(p, rows) == IF p.total_rows = rows THEN p ELSE NoPrev

NoChain == [replace |-> FALSE, total_rows |-> 0, batch_size |-> 0,
            clean |-> TRUE, same |-> TRUE]


\* -------------------------------------------------------------- initial
\* the job before its first run
JobInit ==
  /\ prog \in {"bq", "ch"}
  /\ pc = "idle"
  /\ outcome = "none"
  /\ runs = 0
  /\ ckpt = NoFile
  /\ dest = {}
  /\ batch_size = 1
  /\ replace = FALSE
  /\ total_rows = 0
  /\ total_batches = 0
  /\ checkpoint = None
  /\ start_batch = 0
  /\ total_uploaded = 0
  /\ batch_num = 0
  /\ rows_fetched = 0
  /\ log = <<>>
  /\ stable = TRUE
  /\ wr = NoRows
  /\ emptyF = {}
  /\ chain = NoChain
  /\ prev = NoPrev

\* every run ingests the same source query
OneQuery == sql_query = "Q1" /\ ckptBy = "none"

\* no second job beside this one
OneJob == tables = <<>> /\ keys = <<>> /\ files = <<>> /\ jobs = <<>>

\* no column type is being mapped
NoMapping == pg_type = <<>> /\ ch_type = "none"

Init == JobInit /\ OneQuery /\ OneJob /\ NoMapping

\* ------------------------------------------------------- shared pieces
\* the run ends: an exception reaches the caller, or the function returns
Ended(o) == pc' = "done" /\ outcome' = o

\* a call of the function: parameters bound, locals fresh
Called(bsize, rep) ==
  /\ pc \in {"idle", "done"}
  /\ runs < MaxRuns
  /\ runs' = runs + 1
  /\ prev' = Summary(bsize, rep)
  /\ batch_size' = bsize
  /\ replace' = rep
  /\ pc' = "count"
  /\ outcome' = "running"
  /\ total_rows' = 0
  /\ total_batches' = 0
  /\ checkpoint' = None
  /\ start_batch' = 0
  /\ total_uploaded' = 0
  /\ batch_num' = 0
  /\ rows_fetched' = 0
  /\ log' = <<>>
  /\ stable' = TRUE
  /\ UNCHANGED <<prog, ckpt, dest, wr, emptyF, chain>>

EmptySourceWrong(r) == r < 0

\* if total_rows == 0: return
EmptySource(r) == r = 0

\* the counting query and the plan: `return` on zero rows, ZeroDivisionError
\* on batch_size = 0, an exception of the source when the query fails
Counted ==
  /\ pc = "count"
  /\ \/ /\ Ended("count_error")
        /\ UNCHANGED <<total_rows, total_batches, prev>>
     \/ \E r \in 0..MaxRows :
          /\ total_rows' = r
          /\ prev' = SameJob(prev, r)
          /\ IF EmptySource(r)
               THEN Ended("ok") /\ UNCHANGED total_batches
             ELSE IF batch_size = 0
               THEN Ended("config_error") /\ UNCHANGED total_batches
             ELSE /\ total_batches' = TotalBatches(r, batch_size)
                  /\ pc' = "load"
                  /\ UNCHANGED outcome
  /\ UNCHANGED <<prog, runs, ckpt, dest, batch_size, replace, checkpoint,
                 start_batch, total_uploaded, batch_num, rows_fetched, log,
                 stable, wr, emptyF, chain>>

\* the run does not resume: history of the job restarts here
FreshStart ==
  /\ start_batch' = 0
  /\ total_uploaded' = 0
  /\ batch_num' = 0
  /\ wr' = NoRows
  /\ emptyF' = {}
  /\ chain' = [replace |-> replace, total_rows |-> total_rows,
               batch_size |-> batch_size, clean |-> TRUE, same |-> TRUE]

\* the run resumes after the loaded checkpoint c
Resumed(c) ==
  /\ start_batch' = ResumeStart(c)
  /\ total_uploaded' = ResumeUploaded(c)
  /\ batch_num' = ResumeStart(c)
  /\ chain' = [chain EXCEPT !.same = @ /\ chain.replace = replace
                                      /\ chain.total_rows = total_rows
                                      /\ chain.batch_size = batch_size]
  /\ UNCHANGED <<wr, emptyF>>

ClearFileWrong(f) == IF f = NoFile THEN [kind |-> "FileNotFoundError"] ELSE NoFile

\* if os.path.exists(checkpoint_file): os.remove(checkpoint_file)
ClearFile(f) == IF f # NoFile THEN NoFile ELSE f

ClearedWrong == ckpt' = ckpt /\ log' = log

\* clear_checkpoint, and its print when it removed the file
Cleared ==
  /\ ckpt' = ClearFile(ckpt)
  /\ log' = IF ckpt = NoFile THEN log ELSE Append(log, Event("clear", 0, 0))

FetchedWrong(n) ==
  /\ rows_fetched' = n
  /\ stable' = (stable /\ n = RowsIn(batch_num, total_rows, batch_size))
  /\ log' = Append(log, Event("fetch", batch_num, n))
  /\ pc' = "write"
  /\ UNCHANGED <<emptyF, batch_num>>

\* one paged fetch of the loop succeeded with n rows
Fetched(n) ==
  /\ rows_fetched' = n
  /\ stable' = (stable /\ n = RowsIn(batch_num, total_rows, batch_size))
  /\ log' = Append(log, Event("fetch", batch_num, n))
  /\ IF n = 0
       THEN /\ emptyF' = emptyF \cup {batch_num}
            /\ batch_num' = batch_num + 1
            /\ pc' = "fetch"
       ELSE /\ pc' = "write"
            /\ UNCHANGED <<emptyF, batch_num>>

\* the destination accepted the batch: rows appended, counter advanced
Written ==
  /\ dest' = dest \cup {batch_num}
  /\ wr' = [wr EXCEPT ![batch_num] = @ + rows_fetched]
  /\ total_uploaded' = total_uploaded + rows_fetched
  /\ log' = Append(log, Event("write", batch_num, rows_fetched))
  /\ pc' = "save"

RollbackCheckpointWrong ==
  CheckpointData(batch_num, total_uploaded, total_rows, batch_size)

\* the dictionary saved in the except blocks of hello.py
RollbackCheckpoint ==
  CheckpointData(batch_num - 1, total_uploaded, total_rows, batch_size)

ProgressCheckpointWrong ==
  CheckpointData(batch_num - 1, total_uploaded - rows_fetched, total_rows, batch_size)

\* the dictionary saved after a successful batch
ProgressCheckpoint ==
  CheckpointData(batch_num, total_uploaded, total_rows, batch_size)

\* ------------------------------------------------ src/hello.py: one run
BQ_Start ==
  /\ prog = "bq"
  /\ \E b \in BatchSizes : Called(b, FALSE)

BQ_Count == prog = "bq" /\ Counted

BQ_Load ==
  /\ prog = "bq"
  /\ pc = "load"
  /\ IF ckpt = Garbage
       THEN /\ Ended("load_error")
            /\ UNCHANGED <<ckpt, checkpoint, start_batch, total_uploaded,
                           batch_num, log, wr, emptyF, chain>>
       ELSE /\ checkpoint' = ckpt
            /\ pc' = "fetch"
            /\ UNCHANGED outcome
            /\ IF ckpt = NoFile
                 THEN FreshStart /\ UNCHANGED <<ckpt, log>>
               ELSE IF CheckpointMatches(ckpt, total_rows, batch_size)
                 THEN Resumed(ckpt) /\ UNCHANGED <<ckpt, log>>
               ELSE FreshStart /\ Cleared
  /\ UNCHANGED <<prog, runs, dest, batch_size, replace, total_rows,
                 total_batches, rows_fetched, stable, prev>>

BQ_Fetch ==
  /\ prog = "bq"
  /\ pc = "fetch"
  /\ batch_num < total_batches
  /\ \/ /\ pc' = "rollback"
        /\ outcome' = "fetch_error"
        /\ log' = Append(log, Event("fetch_failed", batch_num, 0))
        /\ UNCHANGED <<rows_fetched, stable, emptyF, batch_num>>
     \/ /\ \E n \in FetchSizes(batch_size) : Fetched(n)
        /\ UNCHANGED outcome
  /\ UNCHANGED <<prog, runs, ckpt, dest, batch_size, replace, total_rows,
                 total_batches, checkpoint, start_batch, total_uploaded, wr,
                 chain, prev>>

BQ_Write ==
  /\ prog = "bq"
  /\ pc = "write"
  /\ \/ /\ pc' = "rollback"
        /\ outcome' = "write_error"
        /\ log' = Append(log, Event("write_failed", batch_num, 0))
        /\ UNCHANGED <<dest, wr, total_uploaded>>
     \/ /\ Written
        /\ UNCHANGED outcome
  /\ UNCHANGED <<prog, runs, ckpt, batch_size, replace, total_rows,
                 total_batches, checkpoint, start_batch, batch_num,
                 rows_fetched, stable, emptyF, chain, prev>>

BQ_Save ==
  /\ prog = "bq"
  /\ pc = "save"
  /\ ckpt' = ProgressCheckpoint
  /\ log' = Append(log, Event("save", batch_num, total_uploaded))
  /\ batch_num' = batch_num + 1
  /\ pc' = "fetch"
  /\ UNCHANGED <<prog, outcome, runs, dest, batch_size, replace, total_rows,
                 total_batches, checkpoint, start_batch, total_uploaded,
                 rows_fetched, stable, wr, emptyF, chain, prev>>

BQ_Rollback ==
  /\ prog = "bq"
  /\ pc = "rollback"
  /\ ckpt' = RollbackCheckpoint
  /\ log' = Append(log, Event("save", batch_num - 1, total_uploaded))
  /\ pc' = "done"
  /\ UNCHANGED <<prog, outcome, runs, dest, batch_size, replace, total_rows,
                 total_batches, checkpoint, start_batch, total_uploaded,
                 batch_num, rows_fetched, stable, wr, emptyF, chain, prev>>

BQ_Finish ==
  /\ prog = "bq"
  /\ pc = "fetch"
  /\ batch_num >= total_batches
  /\ Cleared
  /\ Ended("ok")
  /\ UNCHANGED <<prog, runs, dest, batch_size, replace, total_rows,
                 total_batches, checkpoint, start_batch, total_uploaded,
                 batch_num, rows_fetched, stable, wr, emptyF, chain, prev>>

\* -------------------------------------- src/pg_to_clickhouse.py: one run
CH_Start ==
  /\ prog = "ch"
  /\ \E b \in BatchSizes, rep \in BOOLEAN : Called(b, rep)

CH_Count == prog = "ch" /\ Counted

CH_Load ==
  /\ prog = "ch"
  /\ pc = "load"
  /\ IF ckpt = Garbage
       THEN /\ Ended("load_error")
            /\ UNCHANGED <<ckpt, checkpoint, start_batch, total_uploaded,
                           batch_num, log, wr, emptyF, chain>>
       ELSE /\ checkpoint' = ckpt
            /\ pc' = "prepare"
            /\ UNCHANGED outcome
            /\ IF ckpt = NoFile \/ replace
                 THEN FreshStart /\ UNCHANGED <<ckpt, log>>
               ELSE IF CheckpointMatches(ckpt, total_rows, batch_size)
                 THEN Resumed(ckpt) /\ UNCHANGED <<ckpt, log>>
               ELSE FreshStart /\ Cleared
  /\ UNCHANGED <<prog, runs, dest, batch_size, replace, total_rows,
                 total_batches, rows_fetched, stable, prev>>

RecreateTableWrong == start_batch = 0

\* if replace and start_batch == 0:
RecreateTable == replace /\ start_batch = 0

CH_Prepare ==
  /\ prog = "ch"
  /\ pc = "prepare"
  /\ \/ /\ Ended("prepare_error")
        /\ log' = Append(log, Event("sample_failed", 0, 0))
        /\ UNCHANGED dest
     \/ /\ FetchSizes(batch_size) # {}
        /\ IF RecreateTable
             THEN /\ dest' = {}
                  /\ \/ /\ log' = log \o <<Event("sample", 0, 0),
                                           Event("drop", 0, 0),
                                           Event("create", 0, 0)>>
                        /\ pc' = "fetch"
                        /\ UNCHANGED outcome
                     \/ /\ log' = log \o <<Event("sample", 0, 0),
                                           Event("drop", 0, 0),
                                           Event("create_failed", 0, 0)>>
                        /\ Ended("prepare_error")
             ELSE /\ log' = Append(log, Event("sample", 0, 0))
                  /\ pc' = "fetch"
                  /\ UNCHANGED <<dest, outcome>>
  /\ UNCHANGED <<prog, runs, ckpt, batch_size, replace, total_rows,
                 total_batches, checkpoint, start_batch, total_uploaded,
                 batch_num, rows_fetched, stable, wr, emptyF, chain, prev>>

CH_Fetch ==
  /\ prog = "ch"
  /\ pc = "fetch"
  /\ batch_num < total_batches
  /\ \/ /\ Ended("fetch_error")
        /\ log' = Append(log, Event("fetch_failed", batch_num, 0))
        /\ UNCHANGED <<rows_fetched, stable, emptyF, batch_num>>
     \/ /\ \E n \in FetchSizes(batch_size) : Fetched(n)
        /\ UNCHANGED outcome
  /\ UNCHANGED <<prog, runs, ckpt, dest, batch_size, replace, total_rows,
                 total_batches, checkpoint, start_batch, total_uploaded, wr,
                 chain, prev>>

CH_Write ==
  /\ prog = "ch"
  /\ pc = "write"
  /\ \/ /\ Ended("write_error")
        /\ log' = Append(log, Event("write_failed", batch_num, 0))
        /\ UNCHANGED <<dest, wr, total_uploaded>>
     \/ /\ Written
        /\ UNCHANGED outcome
  /\ UNCHANGED <<prog, runs, ckpt, batch_size, replace, total_rows,
                 total_batches, checkpoint, start_batch, batch_num,
                 rows_fetched, stable, emptyF, chain, prev>>

CH_Save ==
  /\ prog = "ch"
  /\ pc = "save"
  /\ ckpt' = ProgressCheckpoint
  /\ log' = Append(log, Event("save", batch_num, total_uploaded))
  /\ batch_num' = batch_num + 1
  /\ pc' = "fetch"
  /\ UNCHANGED <<prog, outcome, runs, dest, batch_size, replace, total_rows,
                 total_batches, checkpoint, start_batch, total_uploaded,
                 rows_fetched, stable, wr, emptyF, chain, prev>>

CH_Finish ==
  /\ prog = "ch"
  /\ pc = "fetch"
  /\ batch_num >= total_batches
  /\ Cleared
  /\ Ended("ok")
  /\ UNCHANGED <<prog, runs, dest, batch_size, replace, total_rows,
                 total_batches, checkpoint, start_batch, total_uploaded,
                 batch_num, rows_fetched, stable, wr, emptyF, chain, prev>>

\* ------------------------------------------------- process termination
\* The process is terminated between two steps.  save_checkpoint opens the
\* file with mode 'w' (truncating it) and then dumps the record, so a
\* termination that hits a save leaves the old content (not yet opened) or
\* an empty or partial file.
Kill ==
  /\ pc \notin {"idle", "done"}
  /\ Ended("killed")
  /\ ckpt' \in (IF pc \in {"save", "rollback"} THEN {ckpt, Garbage} ELSE {ckpt})
  /\ chain' = [chain EXCEPT !.clean = FALSE]
  /\ UNCHANGED <<prog, runs, dest, batch_size, replace, total_rows,
                 total_batches, checkpoint, start_batch, total_uploaded,
                 batch_num, rows_fetched, log, stable, wr, emptyF, prev>>

\* the steps of the job leave everything beside it alone
Alone == UNCHANGED <<queryvars, parvars, typevars>>

Next ==
  \/ BQ_Start /\ Alone
  \/ BQ_Count /\ Alone
  \/ BQ_Load /\ Alone
  \/ BQ_Fetch /\ Alone
  \/ BQ_Write /\ Alone
  \/ BQ_Save /\ Alone
  \/ BQ_Rollback /\ Alone
  \/ BQ_Finish /\ Alone
  \/ CH_Start /\ Alone
  \/ CH_Count /\ Alone
  \/ CH_Load /\ Alone
  \/ CH_Prepare /\ Alone
  \/ CH_Fetch /\ Alone
  \/ CH_Write /\ Alone
  \/ CH_Save /\ Alone
  \/ CH_Finish /\ Alone
  \/ Kill /\ Alone

Spec == Init /\ [][Next]_vars


\* ============================================ runs of different queries
\* The same job, where each run is given one of two source queries for the
\* one destination table.  Neither script stores or compares the query.
Queries == {"Q1", "Q2"}

\* a call binds sql_query
Asked ==
  /\ sql_query' \in Queries
  /\ UNCHANGED <<ckptBy, parvars, typevars>>

\* a save writes the record of the running query
Signed ==
  /\ ckptBy' = sql_query
  /\ UNCHANGED <<sql_query, parvars, typevars>>

\* any other step: the record stays whose it was, until the file is removed
Tracked ==
  /\ ckptBy' = IF ckpt' = NoFile THEN "none" ELSE ckptBy
  /\ UNCHANGED <<sql_query, parvars, typevars>>

QueryNext ==
  \/ BQ_Start /\ Asked
  \/ BQ_Count /\ Tracked
  \/ BQ_Load /\ Tracked
  \/ BQ_Fetch /\ Tracked
  \/ BQ_Write /\ Tracked
  \/ BQ_Save /\ Signed
  \/ BQ_Rollback /\ Signed
  \/ BQ_Finish /\ Tracked
  \/ CH_Start /\ Asked
  \/ CH_Count /\ Tracked
  \/ CH_Load /\ Tracked
  \/ CH_Prepare /\ Tracked
  \/ CH_Fetch /\ Tracked
  \/ CH_Write /\ Tracked
  \/ CH_Save /\ Signed
  \/ CH_Finish /\ Tracked
  \/ Kill /\ Tracked

SpecQuery == Init /\ [][QueryNext]_vars


\* ============================================ checkpoint file names
\* src/hello.py:18-22.  Table names are strings over a small alphabet, kept
\* as sequences of characters so that str.replace acts on them.
MaxName == 5        \* longest table name

Alphabet == {"a", ".", "_"}

RECURSIVE Strings(_)
Strings(n) ==
  IF n = 0 THEN {<<>>}
  ELSE LET S == Strings(n - 1)
       IN  S \cup {Append(t, c) : t \in {x \in S : Len(x) = n - 1}, c \in Alphabet}

\* validate_bq_table_name: the name has the form dataset.table
ValidTableName(t) == \E i \in 1..Len(t) : t[i] = "."

TableNames == {t \in Strings(MaxName) : ValidTableName(t)}

\* str.replace(old, new) for one-character old and new
Replace(t, old, new) == [i \in 1..Len(t) |-> IF t[i] = old THEN new ELSE t[i]]

\* safe_name = bq_dataset_table.replace(".", "_")
\* f"checkpoint_{safe_name}.json" (inside CHECKPOINT_DIR)
GetCheckpointFilename(t) ==
  <<"checkpoint_">> \o Replace(t, ".", "_") \o <<".json">>

\* the two jobs
Jobs == {1, 2}

KeyInit ==
  /\ JobInit /\ prog = "bq"
  /\ OneQuery /\ NoMapping
  /\ tables \in [Jobs -> TableNames]
  /\ keys = [j \in Jobs |-> <<>>]
  /\ files = <<>>
  /\ jobs = <<>>

\* job j derives the name of its checkpoint file
K_Filename(j) ==
  /\ keys[j] = <<>>
  /\ keys' = [keys EXCEPT ![j] = GetCheckpointFilename(tables[j])]
  /\ UNCHANGED <<jobvars, queryvars, typevars, tables, files, jobs>>

KeyNext == \E j \in Jobs : K_Filename(j)

SpecKey == KeyInit /\ [][KeyNext]_vars


\* ============================================ two jobs side by side
\* Two ingestions of the same script run as two processes, each on its own
\* destination table, and share the working directory.  Their steps
\* interleave.  Each step below is one step of one job; only the steps that
\* read or change the checkpoint files are kept apart.
MaxParRows == 2     \* COUNT(*) of each job's query is drawn from 1..MaxParRows
MaxParRuns == 2     \* runs of each job
ParBatch == 1       \* batch_size of both jobs

\* the destination tables the two jobs are given
ParTables ==
  {<<"a", ".", "a">>, <<"a", ".", "a", "_", "a">>, <<"a", "_", "a", ".", "a">>}

\* CHECKPOINT_FILE = "ch_ingestion_checkpoint.json"
CHECKPOINT_FILE == <<"ch_ingestion_checkpoint.json">>

FileNames == {GetCheckpointFilename(t) : t \in ParTables} \cup {CHECKPOINT_FILE}

\* the file save_checkpoint, load_checkpoint and clear_checkpoint of job j
\* open
CheckpointFile(j) ==
  IF prog = "bq" THEN GetCheckpointFilename(tables[j]) ELSE CHECKPOINT_FILE

\* the dictionary passed to save_checkpoint, with the table it names
ParCheckpoint(t, lcb, uploaded, rows) ==
  [kind |-> "rec", table_name |-> t, last_completed_batch |-> lcb,
   total_uploaded |-> uploaded, total_rows |-> rows, batch_size |-> ParBatch]

\* load_checkpoint of job j: hello.py returns what its file holds;
\* pg_to_clickhouse.py returns it only when it names the job's table
LoadCheckpoint(j) ==
  LET f == files[CheckpointFile(j)]
  IN  IF prog = "ch" /\ f.kind = "rec" /\ f.table_name # tables[j]
        THEN None
        ELSE f

IdleJob == [pc |-> "idle", runs |-> 0, total_rows |-> 0, batch_num |-> 0,
            total_uploaded |-> 0]

ParInit ==
  /\ JobInit /\ OneQuery /\ NoMapping
  /\ tables \in {f \in [Jobs -> ParTables] : f[1] # f[2]}
  /\ keys = <<>>
  /\ files = [n \in FileNames |-> NoFile]
  /\ jobs = [j \in Jobs |-> IdleJob]

ParOthers == <<jobvars, queryvars, typevars, tables, keys>>

\* job j is called (append mode for pg_to_clickhouse.py) and counts its rows
P_Start(j) ==
  /\ jobs[j].pc \in {"idle", "done"}
  /\ jobs[j].runs < MaxParRuns
  /\ \E r \in 1..MaxParRows :
       jobs' = [jobs EXCEPT ![j] = [pc |-> "load", runs |-> @.runs + 1,
                                    total_rows |-> r, batch_num |-> 0,
                                    total_uploaded |-> 0]]
  /\ UNCHANGED <<ParOthers, files>>

\* job j loads its checkpoint and resumes, or clears it on a mismatch
P_Load(j) ==
  /\ jobs[j].pc = "load"
  /\ LET c == LoadCheckpoint(j)
     IN  IF c = None
           THEN /\ jobs' = [jobs EXCEPT ![j].pc = "fetch"]
                /\ UNCHANGED files
         ELSE IF CheckpointMatches(c, jobs[j].total_rows, ParBatch)
           THEN /\ jobs' = [jobs EXCEPT ![j].pc = "fetch",
                                        ![j].batch_num = ResumeStart(c),
                                        ![j].total_uploaded = ResumeUploaded(c)]
                /\ UNCHANGED files
         ELSE /\ jobs' = [jobs EXCEPT ![j].pc = "fetch"]
              /\ files' = [files EXCEPT ![CheckpointFile(j)] = NoFile]
  /\ UNCHANGED ParOthers

\* job j fetches and writes its next batch, or one of the two fails
P_Transfer(j) ==
  /\ jobs[j].pc = "fetch"
  /\ jobs[j].batch_num < TotalBatches(jobs[j].total_rows, ParBatch)
  /\ \/ jobs' = [jobs EXCEPT ![j].pc = IF prog = "bq" THEN "rollback" ELSE "done"]
     \/ jobs' = [jobs EXCEPT ![j].pc = "save",
                             ![j].total_uploaded =
                                @ + RowsIn(jobs[j].batch_num, jobs[j].total_rows, ParBatch)]
  /\ UNCHANGED <<ParOthers, files>>

\* job j saves the checkpoint of the batch it has written
P_Save(j) ==
  /\ jobs[j].pc = "save"
  /\ files' = [files EXCEPT ![CheckpointFile(j)] =
                 ParCheckpoint(tables[j], jobs[j].batch_num,
                               jobs[j].total_uploaded, jobs[j].total_rows)]
  /\ jobs' = [jobs EXCEPT ![j].pc = "fetch", ![j].batch_num = @ + 1]
  /\ UNCHANGED ParOthers

\* hello.py: job j saves the checkpoint of the except block
P_Rollback(j) ==
  /\ jobs[j].pc = "rollback"
  /\ files' = [files EXCEPT ![CheckpointFile(j)] =
                 ParCheckpoint(tables[j], jobs[j].batch_num - 1,
                               jobs[j].total_uploaded, jobs[j].total_rows)]
  /\ jobs' = [jobs EXCEPT ![j].pc = "done"]
  /\ UNCHANGED ParOthers

\* job j has processed its last batch and clears its checkpoint
P_Finish(j) ==
  /\ jobs[j].pc = "fetch"
  /\ jobs[j].batch_num >= TotalBatches(jobs[j].total_rows, ParBatch)
  /\ files' = [files EXCEPT ![CheckpointFile(j)] = NoFile]
  /\ jobs' = [jobs EXCEPT ![j].pc = "done"]
  /\ UNCHANGED ParOthers

ParNext ==
  \E j \in Jobs :
    \/ P_Start(j) \/ P_Load(j) \/ P_Transfer(j) \/ P_Save(j) \/ P_Rollback(j)
    \/ P_Finish(j)

SpecPar == ParInit /\ [][ParNext]_vars


\* ============================================ column type mapping
\* src/pg_to_clickhouse.py:110-153.  Type names are sequences of characters.
MaxTail == 3        \* longest text appended to a prefix of a key

\* the dictionary type_mapping, in the order it is written (and iterated)
type_mapping ==
  <<
    <<<<"I", "N", "T", "E", "G", "E", "R">>,
      "Int32">>,
    <<<<"B", "I", "G", "I", "N", "T">>,
      "Int64">>,
    <<<<"S", "M", "A", "L", "L", "I", "N", "T">>,
      "Int16">>,
    <<<<"S", "E", "R", "I", "A", "L">>,
      "Int32">>,
    <<<<"B", "I", "G", "S", "E", "R", "I", "A", "L">>,
      "Int64">>,
    <<<<"R", "E", "A", "L">>,
      "Float32">>,
    <<<<"D", "O", "U", "B", "L", "E", " ", "P", "R", "E", "C", "I", "S", "I", "O", "N">>,
      "Float64">>,
    <<<<"N", "U", "M", "E", "R", "I", "C">>,
      "Decimal(38, 10)">>,
    <<<<"D", "E", "C", "I", "M", "A", "L">>,
      "Decimal(38, 10)">>,
    <<<<"B", "O", "O", "L", "E", "A", "N">>,
      "Bool">>,
    <<<<"V", "A", "R", "C", "H", "A", "R">>,
      "String">>,
    <<<<"C", "H", "A", "R", "A", "C", "T", "E", "R", " ", "V", "A", "R", "Y", "I", "N", "G">>,
      "String">>,
    <<<<"C", "H", "A", "R">>,
      "String">>,
    <<<<"T", "E", "X", "T">>,
      "String">>,
    <<<<"D", "A", "T", "E">>,
      "Date">>,
    <<<<"T", "I", "M", "E", "S", "T", "A", "M", "P">>,
      "DateTime64(3)">>,
    <<<<"T", "I", "M", "E", "S", "T", "A", "M", "P", " ", "W", "I", "T", "H", "O", "U", "T", " ", "T", "I", "M", "E", " ", "Z", "O", "N", "E">>,
      "DateTime64(3)">>,
    <<<<"T", "I", "M", "E", "S", "T", "A", "M", "P", " ", "W", "I", "T", "H", " ", "T", "I", "M", "E", " ", "Z", "O", "N", "E">>,
      "DateTime64(3)">>,
    <<<<"T", "I", "M", "E">>,
      "String">>,
    <<<<"U", "U", "I", "D">>,
      "UUID">>,
    <<<<"J", "S", "O", "N">>,
      "String">>,
    <<<<"J", "S", "O", "N", "B">>,
      "String">>,
    <<<<"B", "Y", "T", "E", "A">>,
      "String">>,
    <<<<"I", "N", "E", "T">>,
      "String">>,
    <<<<"C", "I", "D", "R">>,
      "String">>,
    <<<<"M", "A", "C", "A", "D", "D", "R">>,
      "String">>
  >>

Lowers == <<"a", "b", "c", "d", "e", "f", "g", "h", "i", "j", "k", "l", "m", "n", "o", "p", "q", "r", "s", "t", "u", "v", "w", "x", "y", "z">>

Uppers == <<"A", "B", "C", "D", "E", "F", "G", "H", "I", "J", "K", "L", "M", "N", "O", "P", "Q", "R", "S", "T", "U", "V", "W", "X", "Y", "Z">>

\* str.upper, str.lower
Upper(t) ==
  [i \in 1..Len(t) |->
     IF \E k \in 1..Len(Lowers) : Lowers[k] = t[i]
       THEN Uppers[CHOOSE k \in 1..Len(Lowers) : Lowers[k] = t[i]]
       ELSE t[i]]

Lower(t) ==
  [i \in 1..Len(t) |->
     IF \E k \in 1..Len(Uppers) : Uppers[k] = t[i]
       THEN Lowers[CHOOSE k \in 1..Len(Uppers) : Uppers[k] = t[i]]
       ELSE t[i]]

\* str.startswith
StartsWith(t, p) == Len(p) <= Len(t) /\ SubSeq(t, 1, Len(p)) = p

DefaultTypeWrong == "KeyError"

\* return 'String'
DefaultType == "String"

FirstMatchWrong(partial) == CHOOSE k \in partial : \A m \in partial : k >= m

\* for pg_key, ch_type in type_mapping.items(): the first key, in the order
\* of the dictionary, that the loop returns on
FirstMatch(partial) == CHOOSE k \in partial : \A m \in partial : k <= m

pg_type_to_ch_type(t) ==
  LET u       == Upper(t)
      exact   == {k \in 1..Len(type_mapping) : type_mapping[k][1] = u}
      partial == {k \in 1..Len(type_mapping) : StartsWith(u, type_mapping[k][1])}
  IN  IF exact # {}
        THEN type_mapping[CHOOSE k \in exact : TRUE][2]
      ELSE IF partial # {}
        THEN type_mapping[FirstMatch(partial)][2]
      ELSE DefaultType

\* what follows the type name in a column type: a length or precision
TailChars == {"(", "1", ")"}

RECURSIVE Tails(_)
Tails(n) ==
  IF n = 0 THEN {<<>>}
  ELSE LET S == Tails(n - 1)
       IN  S \cup {Append(t, c) : t \in {x \in S : Len(x) = n - 1}, c \in TailChars}

\* the type strings tried: every prefix of every key (the keys themselves,
\* and names no key is a prefix of), followed by a tail, in upper and in
\* lower case
TypeInputs ==
  LET stemsOf(key) == {SubSeq(key, 1, n) : n \in 0..Len(key)}
      stems == UNION {stemsOf(type_mapping[k][1]) : k \in 1..Len(type_mapping)}
      upper == {s \o t : s \in stems, t \in Tails(MaxTail)}
  IN  upper \cup {Lower(s) : s \in upper}

TypeInit ==
  /\ JobInit /\ prog = "ch"
  /\ OneQuery /\ OneJob
  /\ pg_type \in TypeInputs
  /\ ch_type = "none"

\* get_create_table_sql maps the type of one column
T_Map ==
  /\ ch_type = "none"
  /\ ch_type' = pg_type_to_ch_type(pg_type)
  /\ UNCHANGED <<jobvars, queryvars, parvars, pg_type>>

TypeNext == T_Map

SpecTypes == TypeInit /\ [][TypeNext]_vars


\* ======================================================== properties
\* the error of a failed fetch or write has reached the caller
BatchError == pc = "done" /\ outcome \in {"fetch_error", "write_error"}

\* the run is past the checkpoint decision of lines hello.py:148-166 /
\* pg_to_clickhouse.py:239-251 and has not ended
Transferring == pc \in {"prepare", "fetch", "write", "save", "rollback"}

\* the batch indices the loop of this run has asked the source or the
\* destination for
Touched ==
  Batches(log, "fetch") \cup Batches(log, "fetch_failed")
    \cup Batches(log, "write") \cup Batches(log, "write_failed")

Count(s, op) == Cardinality({x \in 1..Len(s) : s[x].op = op})

\* the least n with n * bsize >= rows
Ceil(rows, bsize) ==
  CHOOSE n \in 0..rows : n * bsize >= rows /\ \A m \in 0..(n - 1) : m * bsize < rows

\* C1: in both functions, when the fetch or the write of batch k fails and
\* the error reaches the caller, the checkpoint file holds
\* last_completed_batch = k-1 and total_uploaded = the rows of batches
\* 0..k-1, and the next run of the same job starts at batch k.
C1_FailureLeavesCheckpoint ==
  /\ BatchError =>
       /\ ckpt.kind = "rec"
       /\ ckpt.last_completed_batch = batch_num - 1
       /\ ckpt.total_uploaded = total_uploaded
       /\ (chain.clean /\ chain.same) =>
             ckpt.total_uploaded = SumRows(wr, batch_num - 1)
  /\ (Transferring /\ prev.outcome # "none") => start_batch = prev.at

\* C2: a run that loaded a checkpoint matching the fresh plan, with
\* last_completed_batch = k, in replace or append mode, fetches and writes
\* only batches above k, and on completion the uploaded count is the
\* checkpoint's count plus the rows written in this run.
C2_ResumeOnlyRemaining ==
  (pc \notin {"idle", "count", "load"}
     /\ CheckpointMatches(checkpoint, total_rows, batch_size)) =>
    /\ \A i \in Touched : i > checkpoint.last_completed_batch
    /\ (pc = "done" /\ outcome = "ok") =>
          total_uploaded = checkpoint.total_uploaded + WrittenRows(log)

\* C3: a run that loaded a checkpoint whose total_rows or batch_size
\* differs from the fresh plan starts at batch 0 with uploaded count 0, has
\* removed the checkpoint before any batch is transferred, and creates the
\* table before the first write exactly when a run without checkpoint does.
C3_StaleCheckpointDiscarded ==
  (Transferring /\ batch_size >= 1 /\ checkpoint.kind = "rec"
     /\ ~CheckpointMatches(checkpoint, total_rows, batch_size)) =>
    /\ start_batch = 0
    /\ Batches(log, "write") = {} => (ckpt = NoFile /\ total_uploaded = 0)
    /\ (prog = "ch" /\ replace /\ Batches(log, "write") # {}) =>
          Count(log, "create") = 1

\* C4: R >= 1, B >= 1, stable source: a first run that fails writing batch
\* k followed by a rerun without failure makes the rerun process exactly
\* the batches k..total_batches-1, each once, ends with uploaded = R, and
\* leaves no checkpoint.
C4_FailThenRerun ==
  (pc = "done" /\ outcome = "ok" /\ stable /\ total_rows >= 1
     /\ batch_size >= 1 /\ prev.outcome = "write_error" /\ prev.first) =>
    /\ start_batch = prev.at
    /\ Batches(log, "fetch") = prev.at..(total_batches - 1)
    /\ Batches(log, "write") = prev.at..(total_batches - 1)
    /\ Count(log, "write") = total_batches - prev.at
    /\ total_uploaded = total_rows
    /\ ckpt = NoFile

\* C5: (hello.py) whenever the checkpoint file holds last_completed_batch
\* = k, every batch 0..k has been written or was fetched empty since the
\* job last started from batch 0; and over runs, failures and reruns (no
\* process termination) its total_uploaded is the number of rows written
\* for those batches.
C5_CheckpointIsPrefix ==
  (prog = "bq" /\ ckpt.kind = "rec") =>
    /\ \A i \in 0..ckpt.last_completed_batch : wr[i] > 0 \/ i \in emptyF
    /\ chain.clean => ckpt.total_uploaded = SumRows(wr, ckpt.last_completed_batch)

\* a checkpoint over two batches, one of them fetched empty, left by a
\* failure in a rerun
C5_Witness ==
  /\ prog = "bq" /\ BatchError /\ runs = 2 /\ start_batch = 1
  /\ ckpt.kind = "rec" /\ ckpt.last_completed_batch = 1
  /\ emptyF = {1} /\ chain.clean /\ ckpt.total_uploaded = 1

C7_BatchWindows ==
  (pc \notin {"idle", "count"} /\ total_rows >= 1 /\ batch_size >= 1) =>
    /\ total_batches = Ceil(total_rows, batch_size)
    /\ \A r \in 0..(total_rows - 1) :
          Cardinality({i \in 0..(total_batches - 1) :
                          /\ Offset(i, batch_size) <= r
                          /\ r < Offset(i, batch_size) + batch_size}) = 1
    /\ \A i \in 0..(total_batches - 2) :
          Offset(i, batch_size) + batch_size <= Offset(i + 1, batch_size)
    /\ Offset(total_batches - 1, batch_size) < total_rows

\* three rows in batches of two: a full window and a partial last one
C7_Witness ==
  /\ pc = "fetch" /\ total_rows = 3 /\ batch_size = 2 /\ total_batches = 2
  /\ batch_num = 1

\* C8: when the counting query returns 0 the run returns at once: no
\* fetch, write, drop, create, save or clear has happened, and the step
\* leaves the checkpoint file and the destination as they were.
C8_EmptySourceNoEffect ==
  [][(pc = "count" /\ total_rows' = 0
        /\ outcome' \notin {"count_error", "killed"}) =>
       /\ pc' = "done" /\ outcome' = "ok"
       /\ log = <<>> /\ log' = <<>>
       /\ ckpt' = ckpt /\ dest' = dest]_vars

\* an empty count met a checkpoint and a filled table, and left them
C8_Witness ==
  /\ pc = "done" /\ outcome = "ok" /\ total_rows = 0 /\ log = <<>>
  /\ ckpt.kind = "rec" /\ dest # {}

\* C9: a checkpoint file that cannot be deserialized is treated as absent:
\* no run (of a valid configuration) fails because of it.
C9_CorruptTreatedAsAbsent ==
  ~(pc = "done" /\ outcome = "load_error" /\ batch_size >= 1)

\* C10: with batch_size <= 0 a run (that counts at least one row) fails
\* before any batch fetch or write, neither saves nor clears a checkpoint,
\* and never completes successfully.
C10_NonPositiveBatchRejected ==
  (batch_size <= 0 /\ total_rows >= 1 /\ pc \notin {"idle", "count"}) =>
    /\ Touched = {}
    /\ Count(log, "save") = 0 /\ Count(log, "clear") = 0
    /\ pc = "done" => outcome # "ok"

\* C11: the checkpoint file name derived from a destination table is the
\* same whenever it is derived from the same table name, and two different
\* table names never get the same file name.
C11_JobKeyDistinct ==
  \A i \in DOMAIN keys, j \in DOMAIN keys :
    (keys[i] # <<>> /\ keys[j] # <<>>)
      => ((tables[i] = tables[j]) <=> (keys[i] = keys[j]))

\* C12: when two jobs with different destination tables run side by side,
\* a step that is not a step of job j (job j's process does not move) leaves
\* the checkpoint that job j would load as it was.
C12_JobsIsolated ==
  [][\A j \in DOMAIN jobs :
       (jobs'[j] = jobs[j]) => (LoadCheckpoint(j)' = LoadCheckpoint(j))]_vars

\* C13: save_checkpoint is atomic with respect to the termination of the
\* process: whenever the process has been terminated, the checkpoint file
\* is absent or holds a complete record (the one before the save or the new
\* one), never an empty or partly written one.
C13_SaveAtomic ==
  (pc = "done" /\ outcome = "killed") => ckpt.kind \in {"none", "rec"}

\* the run took its starting point from the checkpoint it loaded
ResumedRun ==
  /\ checkpoint # None
  /\ CheckpointMatches(checkpoint, total_rows, batch_size)
  /\ prog = "ch" => ~replace

\* C14: ingest_query_to_clickhouse drops and creates the destination table
\* at most once in a run, only with replace = True, only when the run starts
\* at batch 0 without resuming, and before any batch is written; a resumed
\* run and a run in append mode never drop the table.
C14_TableRecreation ==
  LET drops   == {x \in 1..Len(log) : log[x].op = "drop"}
      creates == {x \in 1..Len(log) : log[x].op \in {"create", "create_failed"}}
      writes  == {x \in 1..Len(log) : log[x].op = "write"}
  IN  /\ Cardinality(drops) <= 1
      /\ Cardinality(creates) <= 1
      /\ (drops \cup creates # {}) =>
           /\ prog = "ch"
           /\ replace
           /\ start_batch = 0
           /\ ~ResumedRun
           /\ \A x \in drops \cup creates, y \in writes : x < y
      /\ writes # {} => dest # {}

C14_Witness ==
  /\ prog = "ch" /\ runs = 2 /\ pc = "done" /\ outcome = "ok"
  /\ Count(log, "drop") = 1 /\ Count(log, "create") = 1
  /\ Count(log, "write") = 2

\* the run went through its whole loop and returned
Completed == pc = "done" /\ outcome = "ok" /\ total_rows > 0

C16_TypeMappingTotal ==
  ch_type # "none" =>
    LET u     == Upper(pg_type)
        keyOf == [k \in 1..Len(type_mapping) |-> type_mapping[k][1]]
        chOf  == [k \in 1..Len(type_mapping) |-> type_mapping[k][2]]
        isKey == \E k \in DOMAIN keyOf : keyOf[k] = u
        pre   == {k \in DOMAIN keyOf : StartsWith(u, keyOf[k])}
    IN  /\ ch_type \in {chOf[k] : k \in DOMAIN chOf}
        /\ isKey => \E k \in DOMAIN keyOf : keyOf[k] = u /\ ch_type = chOf[k]
        /\ (~isKey /\ pre # {}) => \E k \in pre : ch_type = chOf[k]
        /\ (~isKey /\ pre = {}) => ch_type = "String"

\* varchar(1), a parameterized type, has been mapped to the entry of VARCHAR
C16_Witness ==
  /\ pg_type = <<"v", "a", "r", "c", "h", "a", "r", "(", "1", ")">>
  /\ ch_type = "String"

\* C17: clear_checkpoint is idempotent.  The call that ends a run whose loop
\* is over succeeds and leaves no checkpoint file, and when there is none to
\* begin with (never saved, or already cleared by this run) it changes
\* nothing.
C17_ClearIdempotent ==
  [][(pc = "fetch" /\ batch_num >= total_batches /\ pc' = "done"
        /\ outcome' # "killed")
       => /\ outcome' = "ok"
          /\ ckpt' = NoFile
          /\ ckpt = NoFile => (ckpt' = ckpt /\ log' = log)]_vars

\* a run that cleared a mismatching checkpoint when it started, saved none
\* (every batch came back empty), and cleared again when it ended
C17_Witness ==
  /\ Completed /\ ckpt = NoFile
  /\ Count(log, "clear") = 1 /\ Count(log, "save") = 0
  /\ Count(log, "fetch") >= 1

\* the fetches of the loop of this run, in order
LoopFetches == SelectSeq(log, LAMBDA e : e.op \in {"fetch", "fetch_failed"})

UploadedAfter(x) ==
  (IF ResumedRun THEN ResumeUploaded(checkpoint) ELSE 0)
    + WrittenRows(SubSeq(log, 1, x))

\* the last batch this run has written
LastWritten == CHOOSE i \in Batches(log, "write") :
                 \A k \in Batches(log, "write") : k <= i

\* C19: after every successful write of a batch i, and before the fetch of
\* batch i+1 begins, the checkpoint file holds last_completed_batch = i and
\* a total_uploaded that is the count before the write plus the rows of
\* batch i: the save is the very next effect of the run, and whenever the
\* loop is about to fetch, the file holds the record of the last write.
C19_CheckpointAfterWrite ==
  /\ \A x \in 1..Len(log) :
       (log[x].op = "write" /\ x < Len(log)) =>
         log[x + 1] = Event("save", log[x].batch,
                            UploadedAfter(x - 1) + log[x].rows)
  /\ (pc = "fetch" /\ Batches(log, "write") # {}) =>
       ckpt = CheckpointData(LastWritten, total_uploaded, total_rows, batch_size)

\* two batches (2 rows and 1 row) written and saved, the loop is at its head
C19_Witness ==
  /\ pc = "fetch" /\ Count(log, "write") = 2
  /\ ckpt = CheckpointData(1, 3, 3, 2)

\* C20: a checkpoint left by a run of a different source query for the same
\* destination table is never used as a resume point: a run that resumes
\* has loaded a record saved by a run of its own query.
C20_ForeignCheckpointNotResumed ==
  (Transferring /\ ResumedRun /\ Count(log, "save") = 0 /\ batch_size >= 1)
    => ckptBy = sql_query

\* C21: in ingest_query_to_clickhouse, whenever the checkpoint file holds a
\* record with last_completed_batch = k, the destination table holds the
\* rows of every non-empty batch 0..k.  Checked in the form: a record that
\* counts uploaded rows is never on file while the table is empty, as it is
\* after a replace-mode run has dropped and re-created it.
C21_CheckpointCoveredByTable ==
  (prog = "ch" /\ ckpt.kind = "rec" /\ ckpt.batch_size >= 1
     /\ ckpt.last_completed_batch >= 0 /\ ckpt.total_uploaded > 0)
    => dest # {}

\* C22: for a batch size B >= 1 (every fetch returns at most B rows), every
\* record that a run of ingest_pg_to_bq_auto leaves in the checkpoint file
\* has -1 <= last_completed_batch <= total_batches - 1 and
\* 0 <= total_uploaded <= (last_completed_batch + 1) * B for the plan it
\* names, and when it replaces a record of the same plan its total_uploaded
\* is not smaller than that record's.
C22_CheckpointBounds ==
  [][(prog = "bq" /\ ckpt'.kind = "rec" /\ ckpt'.batch_size >= 1) =>
       /\ ckpt'.last_completed_batch >= -1
       /\ ckpt'.last_completed_batch
            <= TotalBatches(ckpt'.total_rows, ckpt'.batch_size) - 1
       /\ ckpt'.total_uploaded >= 0
       /\ ckpt'.total_uploaded
            <= (ckpt'.last_completed_batch + 1) * ckpt'.batch_size
       /\ (ckpt.kind = "rec" /\ ckpt.total_rows = ckpt'.total_rows
             /\ ckpt.batch_size = ckpt'.batch_size)
            => ckpt'.total_uploaded >= ckpt.total_uploaded]_vars

\* a resumed run has replaced the record it loaded (which counted rows) by
\* one that counts more
C22_Witness ==
  /\ prog = "bq" /\ ResumedRun /\ Count(log, "save") >= 1
  /\ ckpt.kind = "rec" /\ checkpoint.total_uploaded > 0
  /\ ckpt.total_uploaded > checkpoint.total_uploaded
  /\ ckpt.last_completed_batch > checkpoint.last_completed_batch

\* C23: when a type string is not a key of the table but several keys are
\* prefixes of it, pg_type_to_ch_type returns the type mapped for the longest
\* of these keys.
C23_LongestPrefixWins ==
  ch_type # "none" =>
    LET u     == Upper(pg_type)
        keyOf == [k \in 1..Len(type_mapping) |-> type_mapping[k][1]]
        chOf  == [k \in 1..Len(type_mapping) |-> type_mapping[k][2]]
        isKey == \E k \in DOMAIN keyOf : keyOf[k] = u
        pre   == {k \in DOMAIN keyOf : StartsWith(u, keyOf[k])}
    IN  (~isKey /\ Cardinality(pre) >= 2) =>
          \A k \in pre :
            (\A m \in pre : Len(keyOf[m]) <= Len(keyOf[k])) => ch_type = chOf[k]

\* TIMESTAMP(1), which TIMESTAMP and TIME are prefixes of, has been mapped
C23_Witness ==
  /\ pg_type = <<"T", "I", "M", "E", "S", "T", "A", "M", "P", "(", "1", ")">>
  /\ ch_type = "DateTime64(3)"

====
